---- MODULE Spec2Model ----
(***************************************************************************)
(* Model of the jobs.af tracker: the normalization pipeline of notify.py   *)
(* (normalize_jobs, compute_expiring, main with its run state file) and    *)
(* the run-lock coordinator of server.py (lock_active, Handler.handle_run).*)
(***************************************************************************)
EXTENDS Integers, Sequences, FiniteSets, TLC

VARIABLES
    \* ---- locals of notify.py main(), also driven directly in SpecNorm ----
    jobs,        \* the raw batch (load_jobs) handed to normalize_jobs
    seen_urls,   \* the seen set (from load_state) handed to normalize_jobs
    today,       \* the run date
    phase,       \* SpecNorm: "build" -> "normalized" -> "classified"
    normalized,  \* result of normalize_jobs
    exp_today,   \* first result of compute_expiring
    exp_soon,    \* second result of compute_expiring
    \* ---- one pipeline process (notify.py main) and its state file ----
    rpc,         \* position of main()
    stateFile,   \* last_state.json
    outputsWritten, \* write_json, write_csv and the summary are on disk
    attempted,   \* notification senders called in this run
    writes,      \* write_text calls on the state file in this run
    everKept,    \* every url a completed run saved (history variable)
    \* ---- run-lock coordinator (server.py) ----
    lockFile,    \* run.lock: absent or its text
    procs,       \* pid -> state of the process with that pid
    tpc,         \* request thread -> position in handle_run
    mutex,       \* holder of RUN_MUTEX, or NoThread
    probe        \* the last handle_run call: what it saw, did and answered

normVars == <<jobs, seen_urls, today, phase, normalized, exp_today, exp_soon>>
runVars  == <<rpc, stateFile, outputsWritten, attempted, writes, everKept>>
lockVars == <<lockFile, procs, tpc, mutex, probe>>
vars     == <<normVars, runVars, lockVars>>

-----------------------------------------------------------------------------
(* Bounds *)

MaxJobs == 3

MaxBatch == 2

MaxPid == 2

MaxThreads == 2

-----------------------------------------------------------------------------
(* Calendar dates (datetime.date) *)

NoDate == [y |-> 0, m |-> 0, d |-> 0]

Date(y, m, d) == [y |-> y, m |-> m, d |-> d]

IsLeap(y) == (y % 4 = 0 /\ y % 100 # 0) \/ y % 400 = 0

DaysInMonth(y, m) ==
    IF m = 2 THEN (IF IsLeap(y) THEN 29 ELSE 28)
    ELSE IF m \in {4, 6, 9, 11} THEN 30 ELSE 31

ValidDate(y, m, d) ==
    /\ y >= 1 /\ m \in 1..12
    /\ d >= 1 /\ d <= DaysInMonth(y, m)

RECURSIVE DaysBeforeMonth(_, _)
DaysBeforeMonth(y, m) ==
    IF m <= 1 THEN 0 ELSE DaysBeforeMonth(y, m - 1) + DaysInMonth(y, m - 1)

RECURSIVE DaysBeforeYear(_)
DaysBeforeYear(y) ==
    IF y <= 2023 THEN 0
    ELSE DaysBeforeYear(y - 1) + (IF IsLeap(y - 1) THEN 366 ELSE 365)

\* date.toordinal, counted from 2023-01-01
Ordinal(dt) == DaysBeforeYear(dt.y) + DaysBeforeMonth(dt.y, dt.m) + dt.d

\* (a - b).days
DaysBetween(a, b) == Ordinal(a) - Ordinal(b)

DateLess(a, b) == Ordinal(a) < Ordinal(b)

-----------------------------------------------------------------------------
(* Text of a closing-date field.  kind "empty": missing, None or "";       *)
(* "junk": non-empty text holding no date; "iso": "f1-f2-f3" with a        *)
(* 4-digit f1; "dmy": "f1/f2/f3" with a 4-digit f3.                        *)

EmptyText == [kind |-> "empty", f |-> <<>>]
JunkText  == [kind |-> "junk",  f |-> <<>>]
IsoText(y, a, b) == [kind |-> "iso", f |-> <<y, a, b>>]
DmyText(a, b, y) == [kind |-> "dmy", f |-> <<a, b, y>>]

\* date.isoformat()
isoformat(dt) == IsoText(dt.y, dt.m, dt.d)

\* dateutil's resolution of three numeric fields under dayfirst=True:
\* with the year first, a last field <= 12 is taken as the month
\* (year, day, month); with the year last, day/month/year unless the second
\* field cannot be a month.
ResolveYmd(t) ==
    IF t.kind = "iso"
    THEN IF t.f[3] <= 12
         THEN [y |-> t.f[1], d |-> t.f[2], m |-> t.f[3]]
         ELSE [y |-> t.f[1], m |-> t.f[2], d |-> t.f[3]]
    ELSE IF t.f[1] > 12 \/ t.f[2] <= 12
         THEN [d |-> t.f[1], m |-> t.f[2], y |-> t.f[3]]
         ELSE [m |-> t.f[1], d |-> t.f[2], y |-> t.f[3]]

parse_date(value) ==
    IF value.kind \in {"empty", "junk"} THEN NoDate
    ELSE LET r == ResolveYmd(value)
         IN IF ValidDate(r.y, r.m, r.d) THEN Date(r.y, r.m, r.d) ELSE NoDate

-----------------------------------------------------------------------------
(* Strings as sequences of characters *)

RECURSIVE LStrip(_)
LStrip(s) == IF s # <<>> /\ Head(s) = " " THEN LStrip(Tail(s)) ELSE s

RECURSIVE RStrip(_)
RStrip(s) ==
    IF s # <<>> /\ s[Len(s)] = " " THEN RStrip(SubSeq(s, 1, Len(s) - 1)) ELSE s

strip(s) == RStrip(LStrip(s))

-----------------------------------------------------------------------------
(* normalize_jobs *)

\* str(job.get("closing_date", "") or job.get("closing_date_raw", "") or "")
CloseRaw(job) ==
    IF job.closing_date.kind # "empty" THEN job.closing_date
    ELSE job.closing_date_raw

\* variant of IsNew with the membership test inverted
IsNewMutInverted(url, seen) == url \in seen

\* job["is_new"] = url not in seen_urls
IsNew(url, seen) == url \notin seen

\* variant of Expired with the comparison reversed
ExpiredMutReversed(close_date, day) ==
    close_date # NoDate /\ DateLess(day, close_date)

\* close_date and close_date < today
Expired(close_date, day) == close_date # NoDate /\ DateLess(close_date, day)

\* variant of SkipUrl without the seen_in_run test
SkipUrlMutNoDedup(url, seen_in_run) == url = <<>>

\* not url or url in seen_in_run
SkipUrl(url, seen_in_run) == url = <<>> \/ url \in seen_in_run

\* one emitted posting: the input dict (idx is its position in the batch) with
\* closing_date replaced by the canonical form when a date was resolved
Emit(job, i, url, close_date, seen) ==
    [idx |-> i,
     url |-> job.url,
     closing_date |-> IF close_date # NoDate THEN isoformat(close_date)
                      ELSE job.closing_date,
     closing_date_raw |-> job.closing_date_raw,
     is_new |-> IsNew(url, seen)]

RECURSIVE NormLoop(_, _, _, _, _, _)
NormLoop(batch, i, seen_in_run, acc, seen, day) ==
    IF i > Len(batch) THEN acc
    ELSE LET job == batch[i]
             url == strip(job.url)
         IN IF SkipUrl(url, seen_in_run)
            THEN NormLoop(batch, i + 1, seen_in_run, acc, seen, day)
            ELSE LET close_date == parse_date(CloseRaw(job))
                     run2 == seen_in_run \cup {url}
                 IN IF Expired(close_date, day)
                    THEN NormLoop(batch, i + 1, run2, acc, seen, day)
                    ELSE NormLoop(batch, i + 1, run2,
                                  Append(acc, Emit(job, i, url, close_date,
                                                   seen)),
                                  seen, day)

normalize_jobs(batch, seen, day) == NormLoop(batch, 1, {}, <<>>, seen, day)

-----------------------------------------------------------------------------
(* compute_expiring *)

\* delta == 0 -> exp_today; 1 <= delta <= 2 -> exp_soon
Bucket(delta) ==
    IF delta = 0 THEN "today" ELSE IF 1 <= delta /\ delta <= 2 THEN "soon"
    ELSE "none"

\* the bucket compute_expiring puts one posting in
Classify(job, day) ==
    LET close_date == parse_date(CloseRaw(job))
    IN IF close_date = NoDate THEN "none"
       ELSE Bucket(DaysBetween(close_date, day))

RECURSIVE SelectBucket(_, _, _)
SelectBucket(s, day, b) ==
    IF s = <<>> THEN <<>>
    ELSE IF Classify(Head(s), day) = b
         THEN <<Head(s)>> \o SelectBucket(Tail(s), day, b)
         ELSE SelectBucket(Tail(s), day, b)

compute_expiring(s, day) ==
    <<SelectBucket(s, day, "today"), SelectBucket(s, day, "soon")>>

-----------------------------------------------------------------------------
(* normalize_jobs and compute_expiring applied to bounded inputs *)

UrlA    == <<"a">>
UrlPadA == <<" ", "a">>
UrlB    == <<"b">>
UrlC    == <<"c">>
UrlBlank == <<" ">>

RawJob(u, cd, raw) == [url |-> u, closing_date |-> cd, closing_date_raw |-> raw]

Todays == {Date(2024, 1, 2), Date(2024, 1, 13)}

SeenSets == {{}, {UrlA}}

JobPool ==
    { RawJob(UrlA, EmptyText, EmptyText),
      RawJob(UrlPadA, JunkText, IsoText(2023, 1, 31)),
      RawJob(UrlA, DmyText(2, 1, 2024), EmptyText),
      RawJob(UrlB, EmptyText, DmyText(13, 1, 2024)),
      RawJob(UrlB, IsoText(2024, 1, 14), EmptyText),
      RawJob(UrlC, IsoText(2024, 1, 15), EmptyText),
      RawJob(UrlBlank, EmptyText, EmptyText),
      RawJob(UrlC, IsoText(2023, 1, 31), EmptyText),
      RawJob(UrlB, DmyText(12, 1, 2024), EmptyText) }

NormInit ==
    /\ jobs = <<>>
    /\ seen_urls \in SeenSets
    /\ today \in Todays
    /\ phase = "build"
    /\ normalized = <<>>
    /\ exp_today = <<>>
    /\ exp_soon = <<>>

\* the scraper hands over one more raw posting
AppendJob ==
    /\ phase = "build"
    /\ Len(jobs) < MaxJobs
    /\ \E j \in JobPool : jobs' = Append(jobs, j)
    /\ UNCHANGED <<seen_urls, today, phase, normalized, exp_today, exp_soon>>

\* normalized = normalize_jobs(jobs, seen_urls, today)
RunNormalize ==
    /\ phase = "build"
    /\ normalized' = normalize_jobs(jobs, seen_urls, today)
    /\ phase' = "normalized"
    /\ UNCHANGED <<jobs, seen_urls, today, exp_today, exp_soon>>

\* exp_today, exp_soon = compute_expiring(normalized, today)
RunExpiring ==
    /\ phase = "normalized"
    /\ exp_today' = compute_expiring(normalized, today)[1]
    /\ exp_soon' = compute_expiring(normalized, today)[2]
    /\ phase' = "classified"
    /\ UNCHANGED <<jobs, seen_urls, today, normalized>>

-----------------------------------------------------------------------------
(* notify.py main(): one pipeline run after another over last_state.json *)

AbsentFile  == [kind |-> "absent",  seen_urls |-> {}, last_new_urls |-> {}]
PartialFile == [kind |-> "partial", seen_urls |-> {}, last_new_urls |-> {}]
StateDoc(seen, new) == [kind |-> "doc", seen_urls |-> seen, last_new_urls |-> new]

\* a missing or unparseable file gives the defaults
load_state(file) ==
    IF file.kind = "doc" THEN [seen_urls |-> file.seen_urls]
    ELSE [seen_urls |-> {}]

\* [job for job in normalized if job.get("is_new")]
NewJobs(s) == SelectSeq(s, LAMBDA job : job.is_new)

Urls(s) == {s[k].url : k \in DOMAIN s}

\* the seen_urls argument of save_state: [job.get("url") for job in normalized
\* if job.get("url")]
SavedSeen(s) == Urls(s)

\* the document save_state writes
save_state(s) == StateDoc(SavedSeen(s), Urls(NewJobs(s)))

\* send_termux_notification: "missing" (no termux-notification on PATH),
\* "delivered", "raised" (subprocess.run raised)
TermuxOutcomes == {"missing", "delivered", "raised"}

send_termux_notification(o) ==
    IF o = "delivered" THEN "sent" ELSE "swallowed"

\* send_email: "unset" (one of host/user/password/to missing), "bad_port"
\* (JOBSAF_SMTP_PORT is not an integer), "transport_error", "delivered"
EmailOutcomes == {"unset", "bad_port", "transport_error", "delivered"}

send_email(o) ==
    IF o = "unset" THEN "swallowed"
    ELSE IF o = "bad_port" THEN "raise"
    ELSE IF o = "transport_error" THEN "swallowed"
    ELSE "sent"

RunPool ==
    { RawJob(UrlA, EmptyText, EmptyText),
      RawJob(UrlPadA, JunkText, EmptyText),
      RawJob(UrlB, IsoText(2024, 1, 14), EmptyText),
      RawJob(UrlC, DmyText(2, 1, 2024), EmptyText) }

RECURSIVE SeqsUpTo(_, _)
SeqsUpTo(S, n) ==
    IF n = 0 THEN {<<>>}
    ELSE LET shorter == SeqsUpTo(S, n - 1)
         IN shorter \cup {Append(q, x) : q \in shorter, x \in S}

Batches == SeqsUpTo(RunPool, MaxBatch)

Running == {"computed", "outputs", "termux_done", "notified", "saving"}

RunInit ==
    /\ rpc = "idle"
    /\ stateFile = AbsentFile
    /\ outputsWritten = FALSE
    /\ attempted = {}
    /\ writes = 0
    /\ everKept = {}

MainLocalsInit ==
    /\ jobs = <<>>
    /\ seen_urls = {}
    /\ today = Date(2024, 1, 2)
    /\ phase = "main"
    /\ normalized = <<>>
    /\ exp_today = <<>>
    /\ exp_soon = <<>>

\* main, lines 281-289: load the batch and the state, normalize, classify
MainCompute ==
    /\ rpc \notin Running
    /\ \E batch \in Batches, day \in Todays :
          /\ ~DateLess(day, today)
          /\ jobs' = batch
          /\ seen_urls' = load_state(stateFile).seen_urls
          /\ today' = day
          /\ normalized' = normalize_jobs(batch, load_state(stateFile).seen_urls, day)
          /\ exp_today' = compute_expiring(normalized', day)[1]
          /\ exp_soon' = compute_expiring(normalized', day)[2]
    /\ rpc' = "computed"
    /\ outputsWritten' = FALSE
    /\ attempted' = {}
    /\ writes' = 0
    /\ UNCHANGED <<phase, stateFile, everKept>>

\* main, lines 291-296: write_json, write_csv, the summary file
MainWriteOutputs ==
    /\ rpc = "computed"
    /\ outputsWritten' = TRUE
    /\ rpc' = "outputs"
    /\ UNCHANGED <<normVars, stateFile, attempted, writes, everKept>>

\* main, line 302
MainSendTermux ==
    /\ rpc = "outputs"
    /\ \E o \in TermuxOutcomes :
          rpc' = IF send_termux_notification(o) = "raise" THEN "aborted"
                 ELSE "termux_done"
    /\ attempted' = attempted \cup {"termux"}
    /\ UNCHANGED <<normVars, stateFile, outputsWritten, writes, everKept>>

\* main, line 303: an exception send_email lets out ends the process
MainSendEmail ==
    /\ rpc = "termux_done"
    /\ \E o \in EmailOutcomes :
          rpc' = IF send_email(o) = "raise" THEN "aborted" ELSE "notified"
    /\ attempted' = attempted \cup {"email"}
    /\ UNCHANGED <<normVars, stateFile, outputsWritten, writes, everKept>>

\* save_state, line 109: write_text opens the file for writing, which
\* truncates it
SaveOpen ==
    /\ rpc = "notified"
    /\ stateFile' = PartialFile
    /\ writes' = writes + 1
    /\ rpc' = "saving"
    /\ UNCHANGED <<normVars, outputsWritten, attempted, everKept>>

\* save_state, line 109: the document is written and the file closed
SaveFlush ==
    /\ rpc = "saving"
    /\ stateFile' = save_state(normalized)
    /\ everKept' = everKept \cup SavedSeen(normalized)
    /\ rpc' = "done"
    /\ UNCHANGED <<normVars, outputsWritten, attempted, writes>>

\* the process is killed
Crash ==
    /\ rpc \in Running
    /\ rpc' = "crashed"
    /\ UNCHANGED <<normVars, stateFile, outputsWritten, attempted, writes,
                   everKept>>

RunNext ==
    \/ MainCompute /\ UNCHANGED lockVars
    \/ MainWriteOutputs /\ UNCHANGED lockVars
    \/ MainSendTermux /\ UNCHANGED lockVars
    \/ MainSendEmail /\ UNCHANGED lockVars
    \/ SaveOpen /\ UNCHANGED lockVars
    \/ SaveFlush /\ UNCHANGED lockVars
    \/ Crash /\ UNCHANGED lockVars

-----------------------------------------------------------------------------
(* server.py: lock_active and Handler.handle_run, with the launched script *)

Pids == 1..MaxPid
Threads == 1..MaxThreads
NoThread == 0

\* run.lock.  kind "absent": no file; "empty": blank text; "junk": first
\* token not an integer; "huge": an integer no pid can hold; "pid": first
\* token is the pid
NoMarker      == [kind |-> "absent", pid |-> 0]
EmptyMarker   == [kind |-> "empty",  pid |-> 0]
JunkMarker    == [kind |-> "junk",   pid |-> 0]
HugeMarker    == [kind |-> "huge",   pid |-> 0]
PidMarker(p)  == [kind |-> "pid",    pid |-> p]

Markers == {NoMarker, EmptyMarker, JunkMarker, HugeMarker}
               \cup {PidMarker(p) : p \in Pids}

\* process states: "dead" (no such process), "foreign" (another user's
\* process), "launched" (run_now.sh started by Popen, marker not yet
\* written), "working" (run_now.sh after writing its marker)
InFlight == {p \in Pids : procs[p] \in {"launched", "working"}}

\* os.kill(pid, 0)
kill0(ps, file) ==
    IF file.kind = "huge" THEN "OverflowError"
    ELSE IF ps[file.pid] = "dead" THEN "ProcessLookupError"
    ELSE IF ps[file.pid] = "foreign" THEN "PermissionError"
    ELSE "ok"

\* variant of lock_active that never unlinks a stale marker
lock_activeMutKeepStale(file, ps, readOk, unlinkOk) ==
    IF file.kind = "absent" THEN [result |-> "free", file |-> file]
    ELSE IF ~readOk \/ file.kind \in {"empty", "junk"}
         THEN [result |-> "held", file |-> file]
    ELSE IF kill0(ps, file) = "OverflowError"
         THEN [result |-> "raise", file |-> file]
    ELSE IF kill0(ps, file) = "ProcessLookupError"
         THEN [result |-> "free", file |-> file]
    ELSE [result |-> "held", file |-> file]

\* lock_active: result "free" (False), "held" (True) or "raise" (an
\* exception it does not catch), and the marker it leaves
lock_active(file, ps, readOk, unlinkOk) ==
    IF file.kind = "absent" THEN [result |-> "free", file |-> file]
    ELSE IF ~readOk \/ file.kind \in {"empty", "junk"}
         THEN [result |-> "held", file |-> file]
    ELSE IF kill0(ps, file) = "OverflowError"
         THEN [result |-> "raise", file |-> file]
    ELSE IF kill0(ps, file) = "ProcessLookupError"
         THEN [result |-> "free",
               file |-> IF unlinkOk THEN NoMarker ELSE file]
    ELSE [result |-> "held", file |-> file]

NoProbe ==
    [called |-> FALSE, marker |-> NoMarker, owner |-> "dead",
     readOk |-> TRUE, unlinkOk |-> TRUE, result |-> "free",
     after |-> NoMarker, reply |-> "none", pid |-> 0, inflight |-> 0]

LockInit ==
    /\ lockFile = NoMarker
    /\ procs = [p \in Pids |-> "dead"]
    /\ tpc = [t \in Threads |-> "idle"]
    /\ mutex = NoThread
    /\ probe = NoProbe

\* POST /api/run arrives on a thread of the ThreadingHTTPServer
Post(t) ==
    /\ tpc[t] = "idle"
    /\ tpc' = [tpc EXCEPT ![t] = "waiting"]
    /\ UNCHANGED <<lockFile, procs, mutex, probe>>

\* with RUN_MUTEX:
Enter(t) ==
    /\ tpc[t] = "waiting"
    /\ mutex = NoThread
    /\ mutex' = t
    /\ tpc' = [tpc EXCEPT ![t] = "locked"]
    /\ UNCHANGED <<lockFile, procs, probe>>

\* the body of handle_run under RUN_MUTEX, to the release of the mutex
handle_run(t) ==
    /\ tpc[t] = "locked"
    /\ mutex = t
    /\ \E readOk, unlinkOk, scriptThere, popenOk \in BOOLEAN :
          LET la == lock_active(lockFile, procs, readOk, unlinkOk)
              free == {p \in Pids : procs[p] = "dead"}
              start == la.result = "free" /\ scriptThere /\ popenOk
                           /\ free # {}
              unlinks == readOk /\ lockFile.kind = "pid"
                             /\ kill0(procs, lockFile) = "ProcessLookupError"
          IN \* a read or an unlink that is not reached cannot fail
             /\ lockFile.kind = "absent" => readOk
             /\ ~unlinks => unlinkOk
             /\ \E p \in (IF start THEN free ELSE {0}) :
                   /\ lockFile' = la.file
                   /\ procs' = IF start THEN [procs EXCEPT ![p] = "launched"]
                               ELSE procs
                   /\ probe' =
                        [called |-> TRUE, marker |-> lockFile,
                         owner |-> IF lockFile.kind = "pid"
                                   THEN procs[lockFile.pid] ELSE "dead",
                         readOk |-> readOk, unlinkOk |-> unlinkOk,
                         result |-> la.result, after |-> la.file,
                         reply |-> IF la.result = "raise" THEN "none"
                                   ELSE IF la.result = "held" THEN "busy"
                                   ELSE IF start THEN "started" ELSE "error",
                         pid |-> p,
                         inflight |-> Cardinality(InFlight)]
    /\ mutex' = NoThread
    /\ tpc' = [tpc EXCEPT ![t] = "idle"]

\* run_now.sh records its own pid in the marker before it starts work
ScriptWriteMarker(p) ==
    /\ procs[p] = "launched"
    /\ lockFile' = PidMarker(p)
    /\ procs' = [procs EXCEPT ![p] = "working"]
    /\ UNCHANGED <<tpc, mutex, probe>>

\* run_now.sh ends and releases the marker
ScriptFinish(p) ==
    /\ procs[p] = "working"
    /\ lockFile' = NoMarker
    /\ procs' = [procs EXCEPT ![p] = "dead"]
    /\ UNCHANGED <<tpc, mutex, probe>>

\* run_now.sh dies without cleanup
ScriptDie(p) ==
    /\ procs[p] \in {"launched", "working"}
    /\ procs' = [procs EXCEPT ![p] = "dead"]
    /\ UNCHANGED <<lockFile, tpc, mutex, probe>>

\* a marker left by something other than a run this server launched (an
\* earlier server's run, a run started by hand, a damaged file)
EnvMarker(m) ==
    /\ lockFile = NoMarker
    /\ m # NoMarker
    /\ lockFile' = m
    /\ UNCHANGED <<procs, tpc, mutex, probe>>

\* another user's process takes or gives up a pid
EnvSpawn(p) ==
    /\ procs[p] = "dead"
    /\ procs' = [procs EXCEPT ![p] = "foreign"]
    /\ UNCHANGED <<lockFile, tpc, mutex, probe>>

EnvExit(p) ==
    /\ procs[p] = "foreign"
    /\ procs' = [procs EXCEPT ![p] = "dead"]
    /\ UNCHANGED <<lockFile, tpc, mutex, probe>>

LockNext ==
    \/ \E t \in Threads : Post(t) /\ UNCHANGED <<normVars, runVars>>
    \/ \E t \in Threads : Enter(t) /\ UNCHANGED <<normVars, runVars>>
    \/ \E t \in Threads : handle_run(t) /\ UNCHANGED <<normVars, runVars>>
    \/ \E p \in Pids : ScriptWriteMarker(p) /\ UNCHANGED <<normVars, runVars>>
    \/ \E p \in Pids : ScriptFinish(p) /\ UNCHANGED <<normVars, runVars>>
    \/ \E p \in Pids : ScriptDie(p) /\ UNCHANGED <<normVars, runVars>>
    \/ \E m \in Markers : EnvMarker(m) /\ UNCHANGED <<normVars, runVars>>
    \/ \E p \in Pids : EnvSpawn(p) /\ UNCHANGED <<normVars, runVars>>
    \/ \E p \in Pids : EnvExit(p) /\ UNCHANGED <<normVars, runVars>>

-----------------------------------------------------------------------------
(* The three specifications *)

RunIdle ==
    /\ rpc = "off" /\ stateFile = AbsentFile /\ outputsWritten = FALSE
    /\ attempted = {} /\ writes = 0 /\ everKept = {}

LockIdle ==
    /\ lockFile = NoMarker /\ procs = [p \in Pids |-> "dead"]
    /\ tpc = [t \in Threads |-> "idle"] /\ mutex = NoThread /\ probe = NoProbe

InitLock == MainLocalsInit /\ RunIdle /\ LockInit

SpecLock == InitLock /\ [][LockNext]_vars

InitRun == MainLocalsInit /\ RunInit /\ LockIdle

SpecRun == InitRun /\ [][RunNext]_vars

NormNext ==
    \/ AppendJob /\ UNCHANGED <<runVars, lockVars>>
    \/ RunNormalize /\ UNCHANGED <<runVars, lockVars>>
    \/ RunExpiring /\ UNCHANGED <<runVars, lockVars>>

InitNorm == NormInit /\ RunIdle /\ LockIdle

SpecNorm == InitNorm /\ [][NormNext]_vars

-----------------------------------------------------------------------------
(* Helpers for the statements about normalize_jobs and compute_expiring *)

Idxs(s) == {s[k].idx : k \in DOMAIN s}

\* the date normalize_jobs resolved for the raw posting at position i
Resolved(i) == parse_date(CloseRaw(jobs[i]))

FirstOccurrence(i) ==
    \A j \in 1..(i - 1) : strip(jobs[j].url) # strip(jobs[i].url)

Perms(n) == {p \in [1..n -> 1..n] : \A a, b \in 1..n : p[a] = p[b] => a = b}

Permute(s, p) == [k \in 1..Len(s) |-> s[p[k]]]

C7_DedupFirstWins ==
    phase # "build" =>
        /\ \A k \in DOMAIN normalized :
              /\ normalized[k].idx \in DOMAIN jobs
              /\ normalized[k].url = jobs[normalized[k].idx].url
              /\ strip(normalized[k].url) # <<>>
              /\ FirstOccurrence(normalized[k].idx)
        /\ \A k, k2 \in DOMAIN normalized :
              k < k2 => /\ normalized[k].idx < normalized[k2].idx
                        /\ strip(normalized[k].url) # strip(normalized[k2].url)

\* a url occurring twice, its first occurrence emitted and followed by another
\* emitted posting
C7_Witness ==
    /\ phase = "normalized"
    /\ Len(normalized) = 2
    /\ \E i, j \in DOMAIN jobs :
          /\ i < j
          /\ strip(jobs[i].url) = strip(jobs[j].url)
          /\ normalized[1].idx = i
          /\ normalized[2].idx > j

\* C8: no emitted posting has a resolved closing date before today, however
\* far in the past; a posting that reaches the expiry filter (non-empty url,
\* first occurrence of it) without a resolvable closing date is emitted.
C8_ExpiryFilter ==
    phase # "build" =>
        /\ \A k \in DOMAIN normalized :
              LET cd == Resolved(normalized[k].idx)
              IN cd = NoDate \/ DaysBetween(cd, today) >= 0
        /\ \A i \in DOMAIN jobs :
              (strip(jobs[i].url) # <<>> /\ FirstOccurrence(i)
                  /\ Resolved(i) = NoDate)
                  => i \in Idxs(normalized)

\* a batch with a posting expired by one day, one expired by almost a year and
\* a retained posting without a date
C8_Witness ==
    /\ phase = "normalized"
    /\ \E i, j, n \in DOMAIN jobs :
          /\ Resolved(i) # NoDate /\ DaysBetween(Resolved(i), today) = -1
          /\ Resolved(j) # NoDate /\ DaysBetween(Resolved(j), today) < -300
          /\ i \notin Idxs(normalized) /\ j \notin Idxs(normalized)
          /\ Resolved(n) = NoDate /\ n \in Idxs(normalized)

\* C9: a normalized posting is in expiring_today iff the closing date resolved
\* for it is today, in expiring_soon iff it is 1 or 2 days ahead, never in both,
\* and each bucket keeps input order.
C9_ClassificationBoundary ==
    phase = "classified" =>
        /\ \A k \in DOMAIN normalized :
              LET cd == Resolved(normalized[k].idx)
                  delta == DaysBetween(cd, today)
              IN /\ normalized[k].idx \in Idxs(exp_today)
                        <=> (cd # NoDate /\ delta = 0)
                 /\ normalized[k].idx \in Idxs(exp_soon)
                        <=> (cd # NoDate /\ delta \in {1, 2})
        /\ Idxs(exp_today) \cap Idxs(exp_soon) = {}
        /\ \A k, k2 \in DOMAIN exp_today :
              k < k2 => exp_today[k].idx < exp_today[k2].idx
        /\ \A k, k2 \in DOMAIN exp_soon :
              k < k2 => exp_soon[k].idx < exp_soon[k2].idx

-----------------------------------------------------------------------------
(* Statements about the run state file and the notifications *)

\* C2: when a run has completed, the seen_urls it saved contain the seen_urls
\* it loaded and every url an earlier completed run saved.
C2_SeenUrlsAccumulate ==
    rpc = "done" =>
        /\ seen_urls \subseteq stateFile.seen_urls
        /\ everKept \subseteq stateFile.seen_urls

\* C5: an interrupted run leaves the state file a complete document (or
\* absent, as before the first run), and a run writes the file at most once,
\* only after the notifications.
C5_AtomicStateWrite ==
    /\ rpc = "crashed" => stateFile.kind # "partial"
    /\ writes <= 1
    /\ writes = 1 => rpc \in {"saving", "done", "crashed"}

\* C10: no notification failure ends the run before save_state, and the email
\* sender is called whatever the push sender did.
C10_BestEffortNotify ==
    /\ rpc # "aborted"
    /\ rpc \in {"notified", "saving", "done"} => attempted = {"termux", "email"}

-----------------------------------------------------------------------------
(* Statements about the run lock *)

\* C1: at most one launched run is alive at any time, and no trigger handled
\* while a launched run is alive is answered started.
C1_SingleFlight ==
    /\ Cardinality(InFlight) <= 1
    /\ (probe.called /\ probe.inflight > 0) => probe.reply # "started"

\* the marker handle_run found was readable and named a process that was not
\* running
StaleProbe ==
    /\ probe.called
    /\ probe.marker.kind = "pid"
    /\ probe.readOk
    /\ probe.owner = "dead"

\* C3 as stated: a readable marker naming a process that is not running makes
\* the lock check report free and leaves no marker.
C3_StaleLockRemoved ==
    StaleProbe => probe.result = "free" /\ probe.after = NoMarker

\* C3 as amended: such a marker makes the lock check report free, so the
\* trigger is not answered busy; the marker is gone when its removal succeeded
\* and is left as it was when the removal failed.
C3_StaleLockReclaimed ==
    StaleProbe =>
        /\ probe.result = "free"
        /\ probe.reply \in {"started", "error"}
        /\ probe.unlinkOk => probe.after = NoMarker
        /\ ~probe.unlinkOk => probe.after = probe.marker

\* a trigger that found the marker of a launched run that had died, removed it
\* and started a run
C3_Witness ==
    /\ StaleProbe
    /\ probe.unlinkOk
    /\ probe.reply = "started"
    /\ probe.after = NoMarker
    /\ procs[probe.pid] = "launched"

\* the marker handle_run found exists and does not show a dead owner
Inconclusive ==
    /\ probe.called
    /\ probe.marker.kind # "absent"
    /\ \/ ~probe.readOk
       \/ probe.marker.kind \in {"empty", "junk", "huge"}
       \/ probe.marker.kind = "pid" /\ probe.owner # "dead"

\* C4: an existing marker that cannot be read or parsed, or whose owner is not
\* confirmed dead, gives Held: the trigger is answered busy, nothing is
\* launched and the marker stays; an existing marker gives free only for a
\* dead owner.
C4_FailClosed ==
    /\ Inconclusive =>
          /\ probe.result = "held"
          /\ probe.reply = "busy"
          /\ probe.pid = 0
          /\ probe.after = probe.marker
    /\ (probe.called /\ probe.marker.kind # "absent"
            /\ probe.result = "free")
          => (probe.marker.kind = "pid" /\ probe.readOk /\ probe.owner = "dead")

====
